---- MODULE Spec2Model ----
(***************************************************************************)
(* Nested CALL/CREATE dispatch of libethereum/ExtVM.cpp.                   *)
(*                                                                         *)
(* ExtVM::call and ExtVM::create build a child Executive one level deeper, *)
(* begin the call or the creation, and when the child needs to run hand    *)
(* its run loop to go(), which runs it in place or, when the caller's      *)
(* depth is c_offloadPoint, on a fresh thread that is joined at once.      *)
(*                                                                         *)
(* Executive, State and the interpreter are not part of ExtVM.cpp; they    *)
(* are modelled here from the specification's description of the frame     *)
(* (ExecutionFrame), the ledger and the run loop.                          *)
(***************************************************************************)
EXTENDS Integers, Sequences, FiniteSets, TLC

VARIABLES
    balance,    \* m_s: balance of every address
    nonce,      \* m_s: nonce of every address
    frames,     \* the chain of live frames, the depth-0 frame first
    threads,    \* the execution contexts: the original thread first
    last,       \* what the most recent call/create gave its caller
    native,     \* the native stack of a call chain under a build's constants
    driver      \* the transaction test driver's run over one fixture

vars == <<balance, nonce, frames, threads, last, native, driver>>

----------------------------------------------------------------------------
(* Configuration.  The program's values (depth limit 1024, stack sizes in  *)
(* bytes) are scaled down so that every depth is reached; the offload      *)
(* point is derived from the stack budget exactly as the source does.      *)

c_depthLimit == 3

c_singleExecutionStackSize == 3

c_defaultStackSize == 5

c_entryOverhead == 1

c_offloadPoint == (c_defaultStackSize - c_entryOverhead) \div c_singleExecutionStackSize

\* Gas the depth-0 frame starts with; every run-loop operation costs one.
MaxGas == 4

\* What every account holds at the start.
InitBalance == 1

\* The accounts: 1 holds contract code, 2 is a plain account (a call to it is
\* a plain value transfer).  0 is the null address.
Addr == {1, 2}

CodeAddrs == {1}

\* Kinds of fault that can escape a frame's run loop.
FaultKinds == {"Interrupted", "BadAlloc"}

NoFault == [kind |-> "none", payload |-> 0]

NativeResourceFault == [kind |-> "NativeResourceFault", payload |-> 0]

----------------------------------------------------------------------------
(* SubState *)

EmptySub == [logs |-> <<>>, refunds |-> 0, suicides |-> {}]

\* SubState::operator+=
Merge(parent, child) ==
    [logs     |-> parent.logs \o child.logs,
     refunds  |-> parent.refunds + child.refunds,
     suicides |-> parent.suicides \cup child.suicides]

----------------------------------------------------------------------------
(* Ledger *)

\* State::noteSending: the nonce of _a goes up by one.
noteSending(non, _a) == [non EXCEPT ![_a] = @ + 1]

transferBalance(bal, from, to, value) ==
    IF from = to THEN bal
    ELSE [bal EXCEPT ![from] = @ - value, ![to] = @ + value]

addressHasCode(a) == a \in CodeAddrs

\* The address a creation by `sender` gets: a function of the sender and of
\* its nonce at the time (a stand-in for the hash of the two).
newContractAddress(sender, n) == ((sender + n) % Cardinality(Addr)) + 1

----------------------------------------------------------------------------
(* Executive: the frame *)

\* Executive e(m_s, envInfo(), m_sealEngine, _depth): a frame at _depth.  A
\* frame deeper than c_depthLimit is built in the exceptional terminal
\* state.  Fields:
\*   term        terminal condition: "none", "normal" or "exception"
\*   gas, sub    remaining gas and accumulated SubState
\*   pgas        the gas the frame was begun with
\*   pc          the run loop: "run", "wait" (inside a nested call/create),
\*               "halted" (it returned) or "thrown" (a fault escaped it)
\*   go          what go() gave the caller: "pending", "returned", "threw"
\*   ctx         the thread the run loop is on (after the join: the caller's)
\*   offloaded   the run loop was put on a thread of its own
\*   fault       the fault travelling out of the frame; raised: the fault
\*               its run loop raised
\*   savepoint   the ledger the frame rolls back to
\*   pre         the ledger when the call/create was invoked
Executive(bal, non, _depth, kind, ctx) ==
    [depth      |-> _depth,
     kind       |-> kind,
     addr       |-> 0,
     gas        |-> 0,
     pgas       |-> 0,
     term       |-> IF _depth > c_depthLimit THEN "exception" ELSE "none",
     sub        |-> EmptySub,
     newAddress |-> 0,
     pc         |-> "run",
     go         |-> "pending",
     ctx        |-> ctx,
     offloaded  |-> FALSE,
     fault      |-> NoFault,
     raised     |-> NoFault,
     savepoint  |-> [balance |-> bal, nonce |-> non],
     pre        |-> [balance |-> bal, nonce |-> non]]

excepted(e) == e.term = "exception"

\* Executive::call: begins the call.  completed = TRUE is the source's
\* `true` (nothing to run).
Executive_call(e, _p, bal, non) ==
    IF excepted(e)
    THEN [e |-> [e EXCEPT !.gas = _p.gas, !.pgas = _p.gas, !.addr = _p.receiveAddress],
          balance |-> bal, completed |-> TRUE]
    ELSE LET bal2 == transferBalance(bal, _p.senderAddress, _p.receiveAddress, _p.valueTransfer)
             e2 == [e EXCEPT !.gas = _p.gas, !.pgas = _p.gas,
                             !.addr = _p.receiveAddress,
                             !.savepoint = [balance |-> bal, nonce |-> non]]
         IN IF addressHasCode(_p.receiveAddress)
            THEN [e |-> e2, balance |-> bal2, completed |-> FALSE]
            ELSE [e |-> [e2 EXCEPT !.term = "normal"], balance |-> bal2, completed |-> TRUE]

\* Executive::create: begins the creation.  Empty init code completes at
\* once.
Executive_create(e, _sender, _endowment, _gas, _code, bal, non) ==
    IF excepted(e)
    THEN [e |-> [e EXCEPT !.gas = _gas, !.pgas = _gas],
          balance |-> bal, completed |-> TRUE]
    ELSE LET a == newContractAddress(_sender, non[_sender] - 1)
             bal2 == transferBalance(bal, _sender, a, _endowment)
             e2 == [e EXCEPT !.gas = _gas, !.pgas = _gas, !.addr = a,
                             !.newAddress = a,
                             !.savepoint = [balance |-> bal, nonce |-> non]]
         IN IF _code = "code"
            THEN [e |-> e2, balance |-> bal2, completed |-> FALSE]
            ELSE [e |-> [e2 EXCEPT !.term = "normal"], balance |-> bal2, completed |-> TRUE]

\* Executive::accrueSubState: the frame's SubState goes into the parent's.
accrueSubState(e, _parentContext) == Merge(_parentContext, e.sub)

----------------------------------------------------------------------------
(* The run loop's end, as Executive::go leaves the frame *)

\* The run loop of f ended with pc ("halted" or "thrown").  When the loop
\* ran in place, go() ends with it; when it ran on a thread of its own, the
\* caller learns of it at the join.
ended(f, pc) ==
    [f EXCEPT !.pc = pc,
              !.go = IF f.offloaded THEN "pending"
                     ELSE IF pc = "halted" THEN "returned" ELSE "threw"]

\* An exceptional halt inside Executive::go: the gas is gone, the frame's
\* SubState is discarded and nothing is created.  The ledger goes back to
\* the frame's savepoint (see VmException).
revert(f) ==
    [f EXCEPT !.gas = 0, !.term = "exception", !.sub = EmptySub, !.newAddress = 0]

----------------------------------------------------------------------------
(* ExtVM.cpp: go and goOnOffloadedStack *)

\* Mutant of capture: the thread's body catches the fault and drops it.
capture_Swallow(e) == NoFault

\* What the thread's body leaves in `exception`: the fault the run loop
\* threw, or nothing.
capture(e) == IF e.pc = "thrown" THEN e.fault ELSE NoFault

\* The stack size asked for the new thread.
offloadedStackSize == (c_depthLimit - c_offloadPoint) * c_singleExecutionStackSize

\* Mutant of goOnOffloadedStack: the thread is created but its body is never
\* started, and the calling thread waits for it.
goOnOffloadedStack_NotStarted(thr, me, spawnOk) ==
    IF spawnOk
    THEN [threads   |-> Append(thr,
                               [status |-> "created", exception |-> NoFault,
                                stackSize |-> offloadedStackSize]),
          ctx       |-> Len(thr) + 1,
          offloaded |-> TRUE,
          fault     |-> NoFault]
    ELSE [threads |-> thr, ctx |-> me, offloaded |-> FALSE,
          fault |-> NativeResourceFault]

\* goOnOffloadedStack up to the return of boost::thread's constructor: a
\* thread with the big stack is created and started; the calling thread
\* `me` has not called join() yet.  The constructor can fail (spawnOk =
\* FALSE); nothing catches that.
goOnOffloadedStack(thr, me, spawnOk) ==
    IF spawnOk
    THEN [threads   |-> Append(thr,
                               [status |-> "running", exception |-> NoFault,
                                stackSize |-> offloadedStackSize]),
          ctx       |-> Len(thr) + 1,
          offloaded |-> TRUE,
          fault     |-> NoFault]
    ELSE [threads |-> thr, ctx |-> me, offloaded |-> FALSE,
          fault |-> NativeResourceFault]

\* Mutant of go: offloads at every depth from the offload point on.
go_AtOrBeyond(_depth, thr, me, spawnOk) ==
    IF _depth >= c_offloadPoint
    THEN goOnOffloadedStack(thr, me, spawnOk)
    ELSE [threads |-> thr, ctx |-> me, offloaded |-> FALSE, fault |-> NoFault]

\* Mutant of go: compares the depth of the child frame, not of the caller.
go_ChildDepth(_depth, thr, me, spawnOk) ==
    IF _depth + 1 = c_offloadPoint
    THEN goOnOffloadedStack(thr, me, spawnOk)
    ELSE [threads |-> thr, ctx |-> me, offloaded |-> FALSE, fault |-> NoFault]

\* go(_depth, _e, _onOp): where the run loop of the child is put.
go(_depth, thr, me, spawnOk) ==
    IF _depth = c_offloadPoint
    THEN goOnOffloadedStack(thr, me, spawnOk)
    ELSE [threads |-> thr, ctx |-> me, offloaded |-> FALSE, fault |-> NoFault]

\* join() has returned: `exception` is rethrown in the calling thread when
\* it is set.
rethrow(exception) == IF exception = NoFault THEN "returned" ELSE "threw"

----------------------------------------------------------------------------
(* ExtVM.cpp: ExtVM::call and ExtVM::create *)

\* Mutant of childDepth: the frame is built at the caller's depth.
childDepth_Same(depth) == depth

\* The depth of the frame call and create build.
childDepth(depth) == depth + 1

\* Mutant of needsGo: the run loop is entered whatever beginning returned.
needsGo_Always(completed) == TRUE

\* if (!e.call(...)) / if (!e.create(...)): the run loop is entered only
\* when beginning did not complete the frame.
needsGo(completed) == ~completed

\* Mutants of createNoteSending: the increment is left out; it is done twice.
createNoteSending_None(non, myAddress) == non

createNoteSending_Twice(non, myAddress) == noteSending(noteSending(non, myAddress), myAddress)

\* ExtVM::create, first statement: the nonce of myAddress goes up.
createNoteSending(non, myAddress) == noteSending(non, myAddress)

\* Mutant of callFinish: the SubState is accrued a second time after the
\* branch.
callFinish_AccrueTwice(sub, e, ran) ==
    [sub |-> IF ran THEN accrueSubState(e, accrueSubState(e, sub)) ELSE accrueSubState(e, sub),
     gas |-> e.gas,
     ok  |-> ~excepted(e),
     address |-> 0]

\* Mutant of callFinish: when nothing was run the call reports success.
callFinish_UnrunSucceeds(sub, e, ran) ==
    [sub |-> IF ran THEN accrueSubState(e, sub) ELSE sub,
     gas |-> e.gas,
     ok  |-> IF ran THEN ~excepted(e) ELSE TRUE,
     address |-> 0]

\* ExtVM::call after beginning (ran = FALSE) or after go() returned
\* (ran = TRUE): the SubState is accrued only when the frame ran, the gas is
\* written back, the result is !e.excepted().
callFinish(sub, e, ran) ==
    [sub |-> IF ran THEN accrueSubState(e, sub) ELSE sub,
     gas |-> e.gas,
     ok  |-> ~excepted(e),
     address |-> 0]

\* Mutant of createFinish: io_gas is left as it was passed in.
createFinish_NoGasWriteback(sub, e, ran) ==
    [sub |-> IF ran THEN accrueSubState(e, sub) ELSE sub,
     gas |-> e.pgas,
     ok  |-> ~excepted(e),
     address |-> e.newAddress]

\* ExtVM::create likewise; the result is e.newAddress().
createFinish(sub, e, ran) ==
    [sub |-> IF ran THEN accrueSubState(e, sub) ELSE sub,
     gas |-> e.gas,
     ok  |-> ~excepted(e),
     address |-> e.newAddress]

----------------------------------------------------------------------------
(* What a call/create gave its caller, with the child frame as it ended.   *)

NoLast == [op |-> "none"]

\* f: the calling frame before the operation ended; e: the child frame as it
\* ended; fin: callFinish/createFinish; thrown: the fault that left the
\* operation (NoFault when it returned).
Observed(op, path, f, e, fin, thrown) ==
    [op         |-> op,
     path       |-> path,
     depth      |-> f.depth,
     myAddress  |-> f.addr,
     gasIn      |-> e.pgas,
     ok         |-> fin.ok,
     address    |-> fin.address,
     gasOut     |-> fin.gas,
     subBefore  |-> f.sub,
     subAfter   |-> fin.sub,
     thrown     |-> thrown,
     raised     |-> e.raised,
     childDepth |-> e.depth,
     childTerm  |-> e.term,
     childGas   |-> e.gas,
     childSub   |-> e.sub,
     offloaded  |-> e.offloaded,
     preBalance |-> e.pre.balance,
     preNonce   |-> e.pre.nonce]

\* A fault left the operation: nothing is accrued, the gas is not written
\* back and nothing is returned.
thrownFinish(sub, e) ==
    [sub |-> sub, gas |-> e.pgas, ok |-> FALSE, address |-> 0]

Finish(op, sub, e, ran) ==
    IF op = "call" THEN callFinish(sub, e, ran) ELSE createFinish(sub, e, ran)

----------------------------------------------------------------------------
(* State machine *)

Top == frames[Len(frames)]

\* The dispatcher's runs leave the other two variables at these values.
NoNative == [platform |-> "none"]

NoDriver == [at |-> "none"]

\* The innermost frame's run loop is executing: its thread is not blocked.
CanStep == Top.pc = "run" /\ threads[Top.ctx].status = "running"

Init ==
    /\ balance = [a \in Addr |-> InitBalance]
    /\ nonce = [a \in Addr |-> 0]
    /\ frames = <<[Executive([a \in Addr |-> InitBalance], [a \in Addr |-> 0], 0, "top", 1)
                      EXCEPT !.addr = 1, !.gas = MaxGas, !.pgas = MaxGas]>>
    /\ threads = <<[status |-> "running", exception |-> NoFault,
                    stackSize |-> c_defaultStackSize]>>
    /\ last = NoLast
    /\ native = NoNative
    /\ driver = NoDriver

\* The rest of ExtVM::call / ExtVM::create once the frame `b.e` has been
\* begun by the caller f: either the frame is complete and the operation
\* returns at once, or its run loop is placed by go() and starts, or
\* creating the thread for it fails.  `value` is the value or endowment
\* asked; an operation that completes at once reports it in `last`.
Dispatch(op, f, b, non, value, spawnOk) ==
    LET n == Len(frames)
        placed == go(f.depth, threads, f.ctx, spawnOk)
    IN  /\ balance' = b.balance
        /\ nonce' = non
        /\ IF needsGo(b.completed)
           THEN IF placed.fault = NoFault
                THEN /\ frames' = Append([frames EXCEPT ![n] = [f EXCEPT !.pc = "wait"]],
                                         [b.e EXCEPT !.ctx = placed.ctx,
                                                     !.offloaded = placed.offloaded])
                     /\ threads' = placed.threads
                     /\ UNCHANGED <<native, driver>>
                     /\ last' = NoLast
                ELSE /\ frames' = [frames EXCEPT ![n] =
                                      ended([f EXCEPT !.fault = placed.fault,
                                                      !.raised = placed.fault], "thrown")]
                     /\ threads' = placed.threads
                     /\ UNCHANGED <<native, driver>>
                     /\ last' = Observed(op, "spawnfail", f, b.e,
                                         thrownFinish(f.sub, b.e), placed.fault)
           ELSE LET fin == Finish(op, f.sub, b.e, FALSE)
                IN  /\ frames' = [frames EXCEPT ![n] =
                                     [f EXCEPT !.sub = fin.sub, !.gas = @ + fin.gas]]
                    /\ threads' = threads
                    /\ UNCHANGED <<native, driver>>
                    /\ last' = Observed(op, "immediate", f, b.e, fin, NoFault)
                                   @@ [value |-> value]

\* The run loop reaches a CALL: ExtVM::call(_p).  The caller pays one gas for
\* the call and hands g to the callee.
Call(recv, value, g, spawnOk) ==
    LET f  == Top
        _p == [gas |-> g, senderAddress |-> f.addr, receiveAddress |-> recv,
               valueTransfer |-> value]
        e  == Executive(balance, nonce, childDepth(f.depth), "call", f.ctx)
        b  == Executive_call(e, _p, balance, nonce)
    IN  /\ CanStep
        /\ f.gas >= 1
        /\ g <= f.gas - 1
        /\ value <= balance[f.addr]
        /\ Dispatch("call", [f EXCEPT !.gas = @ - 1 - g], b, nonce, value, spawnOk)

\* Mutant of Create: the frame is constructed and begun first, and the nonce
\* is raised afterwards.
Create_NoteSendingLast(endowment, g, code, spawnOk) ==
    LET f    == Top
        non1 == createNoteSending(nonce, f.addr)
        e    == Executive(balance, nonce, childDepth(f.depth), "create", f.ctx)
        b    == Executive_create(e, f.addr, endowment, g, code, balance, nonce)
    IN  /\ CanStep
        /\ f.gas >= 1
        /\ g <= f.gas - 1
        /\ endowment <= balance[f.addr]
        /\ Dispatch("create", [f EXCEPT !.gas = @ - 1 - g], b, non1, endowment, spawnOk)

\* The run loop reaches a CREATE: ExtVM::create(_endowment, io_gas, _code).
Create(endowment, g, code, spawnOk) ==
    LET f    == Top
        non1 == createNoteSending(nonce, f.addr)
        e    == [Executive(balance, non1, childDepth(f.depth), "create", f.ctx)
                    EXCEPT !.pre = [balance |-> balance, nonce |-> nonce]]
        b    == Executive_create(e, f.addr, endowment, g, code, balance, non1)
    IN  /\ CanStep
        /\ f.gas >= 1
        /\ g <= f.gas - 1
        /\ endowment <= balance[f.addr]
        /\ Dispatch("create", [f EXCEPT !.gas = @ - 1 - g], b, non1, endowment, spawnOk)

\* The run loop adds to the frame's SubState: a log entry or a refund.
VmEffect(eff) ==
    LET f == Top
    IN  /\ CanStep
        /\ f.gas >= 1
        /\ frames' = [frames EXCEPT ![Len(frames)] =
               [f EXCEPT !.gas = @ - 1,
                         !.sub = IF eff = "log"
                                 THEN [f.sub EXCEPT !.logs = Append(@, f.depth)]
                                 ELSE [f.sub EXCEPT !.refunds = @ + 1]]]
        /\ UNCHANGED <<native, driver>>
        /\ last' = NoLast
        /\ UNCHANGED <<balance, nonce, threads>>

\* The run loop halts normally.
VmStop ==
    /\ CanStep
    /\ frames' = [frames EXCEPT ![Len(frames)] = ended([Top EXCEPT !.term = "normal"], "halted")]
    /\ UNCHANGED <<native, driver>>
    /\ last' = NoLast
    /\ UNCHANGED <<balance, nonce, threads>>

\* The run loop halts normally by self-destruct.
VmSuicide ==
    /\ CanStep
    /\ Top.gas >= 1
    /\ frames' = [frames EXCEPT ![Len(frames)] =
           ended([Top EXCEPT !.term = "normal", !.gas = @ - 1,
                             !.sub = [Top.sub EXCEPT !.suicides = @ \cup {Top.addr}]],
                 "halted")]
    /\ UNCHANGED <<native, driver>>
    /\ last' = NoLast
    /\ UNCHANGED <<balance, nonce, threads>>

\* The run loop halts exceptionally (out of gas, bad instruction): the
\* frame reverts and the ledger goes back to its savepoint.
VmException ==
    /\ CanStep
    /\ frames' = [frames EXCEPT ![Len(frames)] = ended(revert(Top), "halted")]
    /\ balance' = Top.savepoint.balance
    /\ nonce' = Top.savepoint.nonce
    /\ UNCHANGED <<native, driver>>
    /\ last' = NoLast
    /\ UNCHANGED threads

\* A fault of kind k escapes the run loop (thrown by the step callback, an
\* interruption, ...).  Its payload is the depth it was raised at.
VmFault(k) ==
    LET x == [kind |-> k, payload |-> Top.depth]
    IN  /\ CanStep
        /\ frames' = [frames EXCEPT ![Len(frames)] =
               ended([Top EXCEPT !.fault = x, !.raised = x], "thrown")]
        /\ UNCHANGED <<native, driver>>
        /\ last' = NoLast
        /\ UNCHANGED <<balance, nonce, threads>>

\* The body of the offloaded thread ends: _e.go returned, or what it threw
\* was caught and kept in `exception`.
ThreadExit ==
    LET e == Top
    IN  /\ Len(frames) >= 2
        /\ e.offloaded
        /\ e.go = "pending"
        /\ e.pc \in {"halted", "thrown"}
        /\ threads[e.ctx].status = "running"
        /\ e.ctx # frames[Len(frames) - 1].ctx
        /\ threads' = [threads EXCEPT ![e.ctx] =
               [@ EXCEPT !.status = "finished", !.exception = capture(e)]]
        /\ UNCHANGED <<native, driver>>
        /\ last' = NoLast
        /\ UNCHANGED <<balance, nonce, frames>>

\* The thread that created another one calls join() and blocks; the thread
\* it created may have run, or ended, in the meantime.
EnterJoin ==
    /\ \E t \in 1 .. (Len(threads) - 1) :
           /\ threads[t].status = "running"
           /\ threads' = [threads EXCEPT ![t].status = "joining"]
    /\ last' = NoLast
    /\ UNCHANGED <<balance, nonce, frames, native, driver>>

\* Mutant of Join: join() returns while the thread is still running.
Join_NoWait ==
    LET n == Len(frames)
        e == frames[n]
        f == frames[n - 1]
    IN  /\ n >= 2
        /\ e.offloaded
        /\ e.go = "pending"
        /\ e.ctx # f.ctx
        /\ threads[e.ctx].status \in {"running", "finished"}
        /\ threads[f.ctx].status = "joining"
        /\ threads' = [i \in 1 .. (Len(threads) - 1) |->
                          IF i = f.ctx THEN [threads[i] EXCEPT !.status = "running"]
                          ELSE threads[i]]
        /\ frames' = [frames EXCEPT ![n] =
               [e EXCEPT !.ctx = f.ctx,
                         !.go = rethrow(threads[e.ctx].exception),
                         !.fault = threads[e.ctx].exception]]
        /\ UNCHANGED <<native, driver>>
        /\ last' = NoLast
        /\ UNCHANGED <<balance, nonce>>

\* Mutant of Join: the thread object outlives the join.
Join_ThreadKept ==
    LET n == Len(frames)
        e == frames[n]
        f == frames[n - 1]
    IN  /\ n >= 2
        /\ e.offloaded
        /\ e.go = "pending"
        /\ e.ctx # f.ctx
        /\ threads[e.ctx].status = "finished"
        /\ threads[f.ctx].status = "joining"
        /\ threads' = [threads EXCEPT ![f.ctx].status = "running"]
        /\ frames' = [frames EXCEPT ![n] =
               [e EXCEPT !.ctx = f.ctx,
                         !.go = rethrow(threads[e.ctx].exception),
                         !.fault = threads[e.ctx].exception]]
        /\ UNCHANGED <<native, driver>>
        /\ last' = NoLast
        /\ UNCHANGED <<balance, nonce>>

\* join() returns in the calling thread: the offloaded thread is gone, and
\* the exception it left, if any, is rethrown.
Join ==
    LET n == Len(frames)
        e == frames[n]
        f == frames[n - 1]
    IN  /\ n >= 2
        /\ e.offloaded
        /\ e.go = "pending"
        /\ e.ctx # f.ctx
        /\ threads[e.ctx].status = "finished"
        /\ threads[f.ctx].status = "joining"
        /\ threads' = [i \in 1 .. (Len(threads) - 1) |->
                          IF i = f.ctx THEN [threads[i] EXCEPT !.status = "running"]
                          ELSE threads[i]]
        /\ frames' = [frames EXCEPT ![n] =
               [e EXCEPT !.ctx = f.ctx,
                         !.go = rethrow(threads[e.ctx].exception),
                         !.fault = threads[e.ctx].exception]]
        /\ UNCHANGED <<native, driver>>
        /\ last' = NoLast
        /\ UNCHANGED <<balance, nonce>>

\* go() returned: ExtVM::call / ExtVM::create accrue the SubState, write the
\* gas back and return; the child frame is destroyed and the caller's run
\* loop goes on.
Return ==
    LET n == Len(frames)
        e == frames[n]
        f == frames[n - 1]
        fin == Finish(e.kind, f.sub, e, TRUE)
    IN  /\ n >= 2
        /\ e.go = "returned"
        /\ threads[f.ctx].status = "running"
        /\ frames' = [i \in 1 .. (n - 1) |->
                         IF i = n - 1
                         THEN [f EXCEPT !.sub = fin.sub, !.gas = @ + fin.gas, !.pc = "run"]
                         ELSE frames[i]]
        /\ UNCHANGED <<native, driver>>
        /\ last' = Observed(e.kind, IF e.offloaded THEN "relocated" ELSE "direct",
                            f, e, fin, NoFault)
        /\ UNCHANGED <<balance, nonce, threads>>

\* go() threw: nothing in ExtVM::call / ExtVM::create catches, so the fault
\* leaves the operation and the caller's run loop with it; the child frame
\* is destroyed.
Unwind ==
    LET n == Len(frames)
        e == frames[n]
        f == frames[n - 1]
    IN  /\ n >= 2
        /\ e.go = "threw"
        /\ threads[f.ctx].status = "running"
        /\ frames' = [i \in 1 .. (n - 1) |->
                         IF i = n - 1
                         THEN ended([f EXCEPT !.fault = e.fault, !.raised = e.fault], "thrown")
                         ELSE frames[i]]
        /\ UNCHANGED <<native, driver>>
        /\ last' = Observed(e.kind, IF e.offloaded THEN "relocated" ELSE "direct",
                            f, e, thrownFinish(f.sub, e), e.fault)
        /\ UNCHANGED <<balance, nonce, threads>>

Next ==
    \/ \E recv \in Addr, value \in 0 .. InitBalance * Cardinality(Addr), g \in 0 .. MaxGas, spawnOk \in BOOLEAN :
           Call(recv, value, g, spawnOk)
    \/ \E endowment \in 0 .. InitBalance * Cardinality(Addr), g \in 0 .. MaxGas,
          code \in {"empty", "code"}, spawnOk \in BOOLEAN :
           Create(endowment, g, code, spawnOk)
    \/ \E eff \in {"log", "refund"} : VmEffect(eff)
    \/ VmStop
    \/ VmSuicide
    \/ VmException
    \/ \E k \in FaultKinds : VmFault(k)
    \/ EnterJoin
    \/ ThreadExit
    \/ Join
    \/ Return
    \/ Unwind

Spec == Init /\ [][Next]_vars

----------------------------------------------------------------------------
(* Properties *)

\* A call or create has just ended (returned, or a fault left it): Top is
\* the frame that made it.
Ended == last.op # "none"

Returned == Ended /\ last.thrown = NoFault

\* The frames that are relocations: put on a thread of their own.
Relocations == {i \in 2 .. Len(frames) : frames[i].offloaded}

\* C1: when a call or create returns, the caller's SubState is its SubState
\* before the operation with the child's SubState merged in once if the
\* child frame did not end exceptionally, and is its SubState before the
\* operation if the child frame ended exceptionally.
C1_SubStateMergedOnce ==
    Returned =>
        /\ Top.sub = last.subAfter
        /\ last.childTerm # "exception" => last.subAfter = Merge(last.subBefore, last.childSub)
        /\ last.childTerm = "exception" => last.subAfter = last.subBefore

C1_Witness ==
    /\ Returned
    /\ last.op = "call"
    /\ last.path = "relocated"
    /\ last.childTerm = "normal"
    /\ Len(last.childSub.logs) >= 1
    /\ Len(last.subBefore.logs) >= 1

\* C2: a create raises the nonce of the creating account by one, once,
\* before the frame is begun, whatever the outcome: the frame's savepoint
\* holds the nonces of the invocation with the creator's raised by one; when
\* the creation completes at once or halts exceptionally the ledger's nonces
\* are exactly those; when it halts normally or a fault leaves it, the
\* creator's nonce is at least that (nested creations add their own).
C2_CreateIncrementsNonceOnce ==
    /\ \A i \in 2 .. Len(frames) :
           frames[i].kind = "create" =>
               /\ frames[i].savepoint.nonce = noteSending(frames[i].pre.nonce, frames[i - 1].addr)
               /\ nonce[frames[i - 1].addr] >= frames[i].pre.nonce[frames[i - 1].addr] + 1
    /\ (Ended /\ last.op = "create") =>
           /\ nonce[last.myAddress] >= last.preNonce[last.myAddress] + 1
           /\ (last.path = "immediate" \/ last.childTerm = "exception") =>
                  nonce = noteSending(last.preNonce, last.myAddress)

C2_Witness ==
    /\ Ended
    /\ last.op = "create"
    /\ last.path = "direct"
    /\ last.childTerm = "exception"
    /\ nonce[last.myAddress] = last.preNonce[last.myAddress] + 1

\* C3: a call made by a frame at depth c_depthLimit returns false and leaves
\* every balance and every nonce as it was when the call was made.
C3_CallAtDepthLimit ==
    (Ended /\ last.op = "call" /\ last.depth = c_depthLimit) =>
        /\ last.thrown = NoFault
        /\ ~last.ok
        /\ balance = last.preBalance
        /\ nonce = last.preNonce

C3_Witness ==
    /\ Ended
    /\ last.op = "call"
    /\ last.depth = c_depthLimit
    /\ last.value >= 1
    /\ balance # [a \in Addr |-> InitBalance]

\* C4 as stated: a create made by a frame at depth >= c_depthLimit leaves
\* every balance and every nonce as it was when create was invoked.
C4_CreateAtDepthLimitNoEffect ==
    (Ended /\ last.op = "create" /\ last.depth >= c_depthLimit) =>
        /\ balance = last.preBalance
        /\ nonce = last.preNonce

\* C4, amended: a create made by a frame at depth >= c_depthLimit is an
\* exceptional halt (null address) that leaves every balance as it was and
\* every nonce as it was except the creating account's, which is one higher.
C4_CreateAtDepthLimit ==
    (Ended /\ last.op = "create" /\ last.depth >= c_depthLimit) =>
        /\ last.thrown = NoFault
        /\ ~last.ok
        /\ last.address = 0
        /\ balance = last.preBalance
        /\ nonce = noteSending(last.preNonce, last.myAddress)

C4_Witness ==
    /\ Ended
    /\ last.op = "create"
    /\ last.depth = c_depthLimit
    /\ last.value >= 1
    /\ nonce[last.myAddress] = last.preNonce[last.myAddress] + 1

\* C5: when a call or create returns, the gas written back (params.gas,
\* io_gas) is the child frame's remaining gas, on every path.
C5_GasWrittenBack ==
    Returned => last.gasOut = last.childGas

C5_Witness ==
    /\ Returned
    /\ last.op = "create"
    /\ last.path = "direct"
    /\ last.childTerm = "normal"
    /\ last.childGas >= 1
    /\ last.childGas < last.gasIn

\* C6: in a chain of nested frames there is at most one relocation; a chain
\* that goes deeper than c_offloadPoint has exactly one, made by the frame
\* at depth c_offloadPoint, and every frame dispatched from a greater depth
\* runs on the thread that relocation created, with no thread of its own.
C6_OneRelocationPerChain ==
    /\ Cardinality(Relocations) <= 1
    /\ Len(threads) <= 2
    /\ \A i \in 2 .. Len(frames) :
           frames[i - 1].depth > c_offloadPoint =>
               /\ ~frames[i].offloaded
               /\ \E j \in Relocations :
                      /\ j < i
                      /\ frames[j - 1].depth = c_offloadPoint
                      /\ frames[j].go = "pending"
                      /\ frames[i].ctx = frames[j].ctx
               /\ frames[i].ctx = 2
               /\ threads[2].stackSize = offloadedStackSize

C6_Witness ==
    /\ Len(frames) >= 2
    /\ frames[Len(frames) - 1].depth > c_offloadPoint
    /\ Top.pc = "run"
    /\ Top.ctx = 2
    /\ Cardinality(Relocations) = 1

\* C7: go() creates a thread exactly when the caller's depth is
\* c_offloadPoint: a frame dispatched from any other depth runs on its
\* caller's thread, and there are no threads but the original one and one
\* for each relocation that has not been joined yet.
C7_RelocatesOnlyAtOffloadPoint ==
    /\ \A i \in 2 .. Len(frames) :
           /\ frames[i].offloaded <=> frames[i - 1].depth = c_offloadPoint
           /\ ~frames[i].offloaded => frames[i].ctx = frames[i - 1].ctx
           /\ (frames[i].offloaded /\ frames[i].go = "pending") =>
                  frames[i].ctx # frames[i - 1].ctx
    /\ Len(threads) =
           1 + Cardinality({i \in 2 .. Len(frames) : frames[i].ctx # frames[i - 1].ctx})
    /\ (Ended /\ last.path = "spawnfail") => last.depth = c_offloadPoint
    /\ (Ended /\ last.path = "relocated") => last.depth = c_offloadPoint
    /\ (Ended /\ last.path = "direct") => last.depth # c_offloadPoint

C7_Witness ==
    /\ Len(frames) = 4
    /\ frames[1].depth < c_offloadPoint /\ ~frames[2].offloaded /\ frames[2].ctx = 1
    /\ frames[2].depth = c_offloadPoint /\ frames[3].offloaded /\ frames[3].ctx = 2
    /\ frames[3].depth > c_offloadPoint /\ ~frames[4].offloaded /\ frames[4].ctx = 2
    /\ Top.pc = "run"
    /\ Len(threads) = 2

\* C8: what the caller gets from a frame that was run is decided by how the
\* frame's run loop ended and not by where it ran (in place or relocated):
\* a fault the loop raised leaves the operation as the same fault (kind and
\* payload); otherwise the result, the gas and the SubState are those of the
\* frame as the loop left it.
C8_RelocatedRunSameOutcome ==
    (Ended /\ last.path \in {"direct", "relocated"}) =>
        /\ last.thrown = last.raised
        /\ last.thrown = NoFault =>
               /\ last.ok = (last.childTerm # "exception")
               /\ last.gasOut = last.childGas
               /\ last.subAfter = Merge(last.subBefore, last.childSub)
        /\ last.thrown # NoFault =>
               /\ Top.pc = "thrown"
               /\ Top.fault = last.raised
               /\ last.subAfter = last.subBefore

C8_Witness ==
    /\ Ended
    /\ last.path = "relocated"
    /\ last.thrown.kind = "Interrupted"
    /\ last.thrown.payload > last.childDepth
    /\ Len(threads) = 1
    /\ threads[1].status = "running"

\* C9 as stated: no fault raised by the run loop of the sub-execution leaves
\* call or create; the only fault that leaves them is NativeResourceFault.
C9_OnlyNativeResourceFaultEscapes ==
    Ended => last.thrown \in {NoFault, NativeResourceFault}

\* The frames whose thread has created another one: it is about to call
\* join() or is blocked in it.
Blocked(i) == frames[i].ctx < Len(threads)

\* C10 as stated: at most one thread is executing, and every thread but
\* the newest is blocked in join().
C10_AtMostOneExecuting ==
    /\ Cardinality({t \in 1 .. Len(threads) : threads[t].status = "running"}) <= 1
    /\ \A t \in 1 .. (Len(threads) - 1) : threads[t].status = "joining"

\* What holds of the threads and frames in every state: a thread that has
\* created another one has not returned from join(); only the innermost
\* frame's run loop is executing, on the newest thread; and the caller of
\* a relocated frame is handed the outcome only after the frame's run loop
\* has ended and its thread is gone.
C10_Inv ==
    /\ \A t \in 1 .. (Len(threads) - 1) : threads[t].status \in {"running", "joining"}
    /\ threads[Len(threads)].status # "joining"
    /\ \A i \in 1 .. Len(frames) :
           /\ frames[i].pc = "run" =>
                  i = Len(frames) /\ frames[i].ctx = Len(threads)
           /\ (frames[i].offloaded /\ frames[i].go # "pending") =>
                  frames[i].pc \in {"halted", "thrown"} /\ frames[i].ctx = Len(threads)

\* What every step keeps: the frames of a thread that has created another
\* one are not changed, nor are the ledger and the frames by that thread's
\* own step, which is to enter join(); and once in join() it stays there
\* until the thread it created has ended, and runs again as that thread
\* is gone.
C10_Step ==
    /\ \A i \in 1 .. Len(frames) :
           Blocked(i) => (i <= Len(frames') /\ frames'[i] = frames[i])
    /\ \A t \in 1 .. (Len(threads) - 1) :
           /\ t <= Len(threads')
           /\ threads'[t].status # threads[t].status =>
                  /\ balance' = balance /\ nonce' = nonce
                  /\ IF Len(threads') = Len(threads)
                     THEN /\ frames' = frames
                          /\ threads[t].status = "running"
                          /\ threads'[t].status = "joining"
                     ELSE /\ t = Len(threads')
                          /\ threads[t].status = "joining"
                          /\ threads[t + 1].status = "finished"
                          /\ threads'[t].status = "running"

\* C10, amended: at most one thread is running a frame.  While the thread
\* made by goOnOffloadedStack runs a frame, the thread that made it first
\* calls join(), which is all it does, and is then blocked there; it
\* touches no ledger, frame or SubState, and goes on only after the
\* relocated run has ended and its thread is gone.
C10_OneContextRunsFrames == [] C10_Inv /\ [][C10_Step]_vars

C10_Witness ==
    /\ Len(threads) = 2
    /\ threads[1].status = "running"
    /\ threads[2].status = "running"
    /\ Top.pc = "run"
    /\ Top.ctx = 2
    /\ Len(frames) = c_depthLimit + 1
    /\ balance # [a \in Addr |-> InitBalance]

----------------------------------------------------------------------------
(* Liveness *)

\* The depth-0 frame of the runs whose ending is followed: as in Init, with
\* one unit of gas less, which still takes the chain through the offload
\* point to the depth limit.
FairInit ==
    /\ balance = [a \in Addr |-> InitBalance]
    /\ nonce = [a \in Addr |-> 0]
    /\ frames = <<[Executive([a \in Addr |-> InitBalance], [a \in Addr |-> 0], 0, "top", 1)
                      EXCEPT !.addr = 1, !.gas = MaxGas - 1, !.pgas = MaxGas - 1]>>
    /\ threads = <<[status |-> "running", exception |-> NoFault,
                    stackSize |-> c_defaultStackSize]>>
    /\ last = NoLast
    /\ native = NoNative
    /\ driver = NoDriver

\* The run loop of every frame takes its next step, a thread that can run
\* is scheduled, and join() returns once the thread has ended: no step that
\* stays possible is put off for ever.
FairSpec == FairInit /\ [][Next]_vars /\ WF_vars(Next)

\* A call or create is in progress, or a relocation is not joined yet.
Busy ==
    \/ Len(frames) >= 2
    \/ Len(threads) >= 2
    \/ threads[1].status = "joining"

\* Every call and create has ended and every relocation is joined: only the
\* depth-0 frame is left, on the original thread, which is not blocked.
Quiet ==
    /\ Len(frames) = 1
    /\ Len(threads) = 1
    /\ threads[1].status = "running"

\* C11: an operation that returns does so with its frame in a terminal
\* state; and whenever a call or create is in progress or a relocation is
\* not joined, eventually every call and create has ended (returned, or the
\* fault its run raised has left it), every relocation is joined and the
\* thread that was blocked in the join runs again.
C11_Terminal == Returned => last.childTerm \in {"normal", "exception"}

C11_EveryCallReturns ==
    /\ [] C11_Terminal
    /\ Busy ~> Quiet

C11_Witness ==
    /\ Returned
    /\ last.path = "relocated"
    /\ last.childTerm = "exception"
    /\ Len(threads) = 1
    /\ Len(frames) = c_offloadPoint + 1

----------------------------------------------------------------------------
(* Release of the relocation's thread and stack *)

\* The relocations whose join has not completed yet.
Unjoined == {i \in Relocations : frames[i].go = "pending"}

\* C12: the threads that exist, apart from the original one, are exactly
\* those of the relocations whose join has not completed; once go() has
\* returned or raised for a frame, normally or with a fault, the frame is on
\* its caller's thread and the thread and stack made for it are gone; when
\* a call or create has ended the newest thread is the caller's.
C12_ThreadReleasedAtJoin ==
    /\ Len(threads) = 1 + Cardinality(Unjoined)
    /\ \A i \in 2 .. Len(frames) :
           frames[i].go # "pending" =>
               /\ frames[i].ctx = frames[i - 1].ctx
               /\ frames[i].ctx <= Len(threads)
    /\ Ended => Len(threads) = Top.ctx

C12_Witness ==
    /\ Len(frames) >= 2
    /\ frames[Len(frames)].offloaded
    /\ frames[Len(frames)].go = "threw"
    /\ frames[Len(frames)].fault.kind = "BadAlloc"
    /\ Len(threads) = 1

----------------------------------------------------------------------------
(* The native stack under the program's own constants.  A chain of nested *)
(* calls is followed with the values ExtVM.cpp is compiled with on every  *)
(* platform and build; of a frame only its depth and the stack its run    *)
(* loop is on matter here.                                                *)

depthLimit == 1024

\* How many threads one execution may create before the chain stops asking.
MaxCreated == 2

Platforms == {"linux", "win32", "other"}

\* NDEBUG undefined / defined
Builds == {"debug", "release"}

\* The width of size_t
SizeBits == {32, 64}

singleExecutionStackSize(build) ==
    IF build = "release" THEN 10 * 1024 ELSE 16 * 1024

defaultStackSize(platform) ==
    CASE platform = "linux" -> 8 * 1024 * 1024
      [] platform = "win32" -> 16 * 1024 * 1024
      [] OTHER -> 512 * 1024

entryOverhead == 128 * 1024

\* unsigned and size_t values that may wrap are kept in 16-bit halves:
\* [top, hi, lo] stands for top * 2^32 + hi * 2^16 + lo.
Half == 2 ^ 16

toWord(x) == [top |-> 0, hi |-> x \div Half, lo |-> x % Half]

\* a - b in unsigned (32 bits): the difference modulo 2^32.
unsignedSub(a, b) ==
    LET d == a - b
    IN  [top |-> 0, hi |-> (d \div Half) % Half, lo |-> d % Half]

\* u * m in size_t of the given width, u an unsigned value and m < 2^15.
sizeMul(u, m, bits) ==
    LET p0 == u.lo * m
        p1 == u.hi * m + (p0 \div Half)
    IN  [top |-> IF bits = 64 THEN p1 \div Half ELSE 0,
         hi  |-> p1 % Half,
         lo  |-> p0 % Half]

\* Mutant of offloadPoint: the quotient is rounded up.
offloadPoint_RoundUp(platform, build) ==
    (defaultStackSize(platform) - entryOverhead + singleExecutionStackSize(build) - 1)
        \div singleExecutionStackSize(build)

\* c_offloadPoint.  The default stack size is above the entry overhead, so
\* the size_t subtraction does not wrap, and the quotient is below 2^16, so
\* the narrowing to unsigned keeps it.
offloadPoint(platform, build) ==
    (defaultStackSize(platform) - entryOverhead) \div singleExecutionStackSize(build)

\* Mutant of stackSize: the operands of the subtraction are exchanged.
stackSize_Exchanged(platform, build, bits) ==
    sizeMul(unsignedSub(offloadPoint(platform, build), depthLimit),
            singleExecutionStackSize(build), bits)

\* The stack size goOnOffloadedStack asks for: the unsigned difference
\* times the size_t per-execution size.
stackSize(platform, build, bits) ==
    sizeMul(unsignedSub(depthLimit, offloadPoint(platform, build)),
            singleExecutionStackSize(build), bits)

\* Mutant of offloads: every caller at or beyond the offload point offloads.
offloads_AtOrBeyond(_depth, platform, build) == _depth >= offloadPoint(platform, build)

\* go's test, on the depth of the caller.
offloads(_depth, platform, build) == _depth = offloadPoint(platform, build)

\* The depth-0 frame is running on the original thread's stack; no thread
\* has been created.
NativeInit ==
    /\ native \in {[platform |-> p, build |-> b, bits |-> w,
                    depth |-> 0,        \* depth of the innermost frame
                    onOriginal |-> 1,   \* run loops on the original stack
                    onOffloaded |-> 0,  \* run loops on the newest thread's stack
                    alive |-> 0,        \* threads created and not joined
                    created |-> 0,      \* threads created so far
                    run |-> "loop",     \* the innermost frame's run: "loop",
                                        \* "ended" (the thread's body has
                                        \* ended), "joined" (join() returned)
                    size |-> toWord(0)] \* stack size of the newest thread
                   : p \in Platforms, b \in Builds, w \in SizeBits}
    /\ balance = <<>>
    /\ nonce = <<>>
    /\ frames = <<>>
    /\ threads = <<>>
    /\ last = NoLast
    /\ driver = NoDriver

\* The innermost frame calls or creates, and the frame at depth + 1 needs a
\* run (a frame beyond the depth limit is exceptional from construction and
\* gets none): go() puts the run on a new thread when the caller is at the
\* offload point, and on the current stack otherwise.
EnterCall ==
    LET d == native.depth
    IN  /\ native.run = "loop"
        /\ d + 1 <= depthLimit
        /\ IF offloads(d, native.platform, native.build)
           THEN /\ native.created < MaxCreated
                /\ native' = [native EXCEPT
                       !.depth = d + 1,
                       !.alive = @ + 1,
                       !.created = @ + 1,
                       !.onOffloaded = 1,
                       !.size = stackSize(native.platform, native.build, native.bits)]
           ELSE IF native.alive > 0
                THEN native' = [native EXCEPT !.depth = d + 1, !.onOffloaded = @ + 1]
                ELSE native' = [native EXCEPT !.depth = d + 1, !.onOriginal = @ + 1]
        /\ UNCHANGED <<balance, nonce, frames, threads, last, driver>>

\* The run on the created thread ends and the thread's body with it; the
\* original thread is still waiting in join().
NativeThreadExit ==
    LET d == native.depth
    IN  /\ d >= 1
        /\ offloads(d - 1, native.platform, native.build)
        /\ native.run = "loop"
        /\ native' = [native EXCEPT !.run = "ended", !.onOffloaded = 0]
        /\ UNCHANGED <<balance, nonce, frames, threads, last, driver>>

\* join() returns in the original thread: the created thread and its stack
\* are gone; ExtVM::call / ExtVM::create has not returned yet.
NativeJoin ==
    /\ native.run = "ended"
    /\ native' = [native EXCEPT !.run = "joined",
                                !.alive = @ - 1,
                                !.size = toWord(0)]
    /\ UNCHANGED <<balance, nonce, frames, threads, last, driver>>

\* The call or create returns to the caller, whose run loop goes on: after
\* the join when the run was on a thread of its own, and otherwise as the
\* innermost frame's run ends on the stack it shares with the caller.
LeaveCall ==
    LET d == native.depth
    IN  /\ d >= 1
        /\ IF offloads(d - 1, native.platform, native.build)
           THEN /\ native.run = "joined"
                /\ native' = [native EXCEPT !.depth = d - 1, !.run = "loop"]
           ELSE /\ native.run = "loop"
                /\ IF native.alive > 0
                   THEN native' = [native EXCEPT !.depth = d - 1, !.onOffloaded = @ - 1]
                   ELSE native' = [native EXCEPT !.depth = d - 1, !.onOriginal = @ - 1]
        /\ UNCHANGED <<balance, nonce, frames, threads, last, driver>>

NativeNext == EnterCall \/ NativeThreadExit \/ NativeJoin \/ LeaveCall

NativeSpec == NativeInit /\ [][NativeNext]_vars

\* C13: under every platform and build, the offload point times the
\* per-execution stack size plus the entry overhead is at most the default
\* stack size.
C13_StackBudget ==
    offloadPoint(native.platform, native.build)
            * singleExecutionStackSize(native.build) + entryOverhead
        <= defaultStackSize(native.platform)

C13_Witness ==
    /\ native.platform = "other"
    /\ native.build = "debug"
    /\ native.depth = offloadPoint(native.platform, native.build)
    /\ native.depth * singleExecutionStackSize(native.build) + entryOverhead
           = defaultStackSize(native.platform)

----------------------------------------------------------------------------
(* Order of the nonce increment in create *)

\* C14: the frame of a create is constructed and begun on a ledger that
\* already holds the creator's nonce raised by one and is otherwise the
\* ledger of the invocation; and when a create returns with its frame ended
\* exceptionally, every balance is as it was when create was invoked and
\* every nonce too, except the creator's, which is one higher.
C14_NonceBeforeFrame ==
    /\ \A i \in 2 .. Len(frames) :
           frames[i].kind = "create" =>
               LET creator == frames[i - 1].addr
               IN  /\ frames[i].savepoint.balance = frames[i].pre.balance
                   /\ frames[i].savepoint.nonce[creator] = frames[i].pre.nonce[creator] + 1
                   /\ \A a \in Addr \ {creator} :
                          frames[i].savepoint.nonce[a] = frames[i].pre.nonce[a]
    /\ (Returned /\ last.op = "create" /\ last.childTerm = "exception") =>
           /\ last.address = 0
           /\ balance = last.preBalance
           /\ nonce[last.myAddress] = last.preNonce[last.myAddress] + 1
           /\ \A a \in Addr \ {last.myAddress} : nonce[a] = last.preNonce[a]

C14_Witness ==
    /\ Returned
    /\ last.op = "create"
    /\ last.path = "relocated"
    /\ last.childTerm = "exception"
    /\ nonce[last.myAddress] = last.preNonce[last.myAddress] + 1
    /\ balance = last.preBalance

----------------------------------------------------------------------------
(* Depths *)

\* The frames of the chain are at depths 0, 1, 2, ... in order.
ChainDepths ==
    /\ frames[1].depth = 0
    /\ \A i \in 2 .. Len(frames) : frames[i].depth = childDepth(frames[i - 1].depth)

\* C15 as stated: every frame that exists, those of the chain and the one
\* the call or create that has just ended built, is at a depth from 0 to
\* c_depthLimit; a child's depth is its caller's plus one; and no frame
\* above c_depthLimit runs or changes the ledger.
C15_EveryFrameWithinLimit ==
    /\ \A i \in 1 .. Len(frames) : frames[i].depth \in 0 .. c_depthLimit
    /\ Ended => last.childDepth \in 0 .. c_depthLimit
    /\ ChainDepths
    /\ Ended => last.childDepth = last.depth + 1
    /\ (Ended /\ last.childDepth > c_depthLimit) => last.path = "immediate"

\* C15, amended: every frame whose run loop is entered is at a depth from 0
\* to c_depthLimit, and a child's depth is its caller's plus one; so the
\* frame a caller at c_depthLimit builds is at c_depthLimit + 1: it is
\* exceptional from construction, the operation completes at once, no run
\* loop is entered, no thread is created, and the ledger is as it was when
\* the operation was invoked, but for the nonce a create raises itself.
C15_RunFramesWithinLimit ==
    /\ \A i \in 1 .. Len(frames) : frames[i].depth \in 0 .. c_depthLimit
    /\ ChainDepths
    /\ Ended =>
           /\ last.childDepth = last.depth + 1
           /\ last.childDepth \in 1 .. (c_depthLimit + 1)
           /\ last.childDepth > c_depthLimit =>
                  /\ last.path = "immediate"
                  /\ last.childTerm = "exception"
                  /\ ~last.offloaded
                  /\ balance = last.preBalance
                  /\ nonce = IF last.op = "create"
                             THEN noteSending(last.preNonce, last.myAddress)
                             ELSE last.preNonce

C15_Witness ==
    /\ Ended
    /\ last.op = "call"
    /\ last.childDepth = c_depthLimit + 1
    /\ Len(frames) = c_depthLimit + 1
    /\ Top.depth = c_depthLimit
    /\ Len(threads) = 2

----------------------------------------------------------------------------
(* The offloaded stack *)

\* C16: under every platform and build, while a thread made by
\* goOnOffloadedStack exists, the offload point is at most the depth limit,
\* the stack size asked for the thread is exactly (depth limit - offload
\* point) * per-execution stack size, with no wrap-around in unsigned or
\* size_t, and the run loops nested on that stack number at most depth
\* limit - offload point (at least one until the thread's body has ended).
C16_OffloadedStackCoversRest ==
    native.alive > 0 =>
        LET op == offloadPoint(native.platform, native.build)
            m  == singleExecutionStackSize(native.build)
        IN  /\ op <= depthLimit
            /\ native.size = toWord((depthLimit - op) * m)
            /\ native.onOffloaded \in 0 .. (depthLimit - op)
            /\ native.onOffloaded = 0 <=> native.run = "ended"
            /\ native.onOffloaded * m <= (depthLimit - op) * m

C16_Witness ==
    /\ native.alive = 1
    /\ native.bits = 32
    /\ native.depth = depthLimit
    /\ native.onOffloaded = depthLimit - offloadPoint(native.platform, native.build)
    /\ native.size = toWord(native.onOffloaded * singleExecutionStackSize(native.build))

\* C18 as stated: the stack used on the original thread, the entry
\* overhead plus one per-execution stack size for every run loop on that
\* stack (the depth-0 frame's and that of every child dispatched by a caller
\* at a depth below the offload point), is at most the default stack size.
C18_OriginalStackWithinDefault ==
    entryOverhead + native.onOriginal * singleExecutionStackSize(native.build)
        <= defaultStackSize(native.platform)

----------------------------------------------------------------------------
(* How many threads one execution creates *)

\* C17 as stated: over a whole execution at most one thread is created.
C17_AtMostOneContextEver == native.created <= 1

\* A step creates a thread exactly when the frame at the offload point
\* dispatches a child that needs a run; it creates one.
C17_Step ==
    /\ native'.created \in {native.created, native.created + 1}
    /\ native'.created = native.created + 1
           <=> /\ native.depth = offloadPoint(native.platform, native.build)
               /\ native'.depth = native.depth + 1

\* C17, amended: at any time at most one thread made by goOnOffloadedStack
\* exists, and it exists exactly while the chain is deeper than the offload
\* point and join() has not returned; one is created for every call or
\* create that needs a run and is dispatched by a frame at the offload
\* point, so sibling calls from that frame create one each.
C17_OneContextAtATime ==
    /\ [](/\ native.alive \in {0, 1}
          /\ native.alive = 1
                 <=> /\ native.depth > offloadPoint(native.platform, native.build)
                     /\ native.run # "joined"
          /\ native.created >= native.alive)
    /\ [][C17_Step]_vars

C17_Witness ==
    /\ native.created = 2
    /\ native.alive = 1
    /\ native.run = "loop"
    /\ native.depth = offloadPoint(native.platform, native.build) + 1
    /\ native.onOriginal = native.depth

----------------------------------------------------------------------------
(* A call or create whose frame is complete once begun *)

\* A call or create has just ended without go(): beginning completed the
\* frame.
Immediate == Ended /\ last.path = "immediate"

\* What such an operation did apart from the balances: no run loop ran (the
\* frame's gas is the gas it was begun with, its SubState is empty, no
\* fault was raised), no thread was created, whatever the caller's depth,
\* the caller's SubState is as it was and its run loop goes on, the gas
\* handed back is the frame's, the result tells whether the frame is
\* exceptional, and the nonces are those of the invocation, the creator's
\* raised by one for a create.
ImmediateEffects ==
    /\ last.thrown = NoFault
    /\ last.raised = NoFault
    /\ last.childGas = last.gasIn
    /\ last.childSub = EmptySub
    /\ ~last.offloaded
    /\ Len(threads) = Top.ctx
    /\ Top.pc = "run"
    /\ Top.depth = last.depth
    /\ Top.sub = last.subBefore
    /\ last.subAfter = last.subBefore
    /\ last.gasOut = last.childGas
    /\ last.ok = (last.childTerm # "exception")
    /\ last.op = "call" => last.address = 0
    /\ nonce = IF last.op = "create"
               THEN noteSending(last.preNonce, last.myAddress)
               ELSE last.preNonce

\* C19 as stated: besides the gas, the result and the nonce of a create,
\* such an operation has no effect: the balances too are as they were.
C19_ImmediateOnlyGasResultNonce ==
    Immediate => (ImmediateEffects /\ balance = last.preBalance)

\* C19, amended: besides the gas, the result and the nonce of a create,
\* such an operation leaves what beginning the frame did to the ledger: the
\* value or endowment moved from the caller to the receiver or the new
\* address, unless the frame is exceptional.
C19_ImmediateNoRunNoContext ==
    Immediate =>
        /\ ImmediateEffects
        /\ IF last.childTerm = "exception"
           THEN balance = last.preBalance
           ELSE \E a \in Addr :
                    balance = transferBalance(last.preBalance, last.myAddress, a, last.value)

C19_Witness ==
    /\ Immediate
    /\ last.op = "call"
    /\ last.depth = c_offloadPoint
    /\ last.value = 1
    /\ balance # last.preBalance
    /\ Len(threads) = 1

----------------------------------------------------------------------------
(* TransactionTests.cpp: doTransactionTests on one fixture of the file, in *)
(* check mode (_fillin false) and in fill mode (_fillin true).  RLP       *)
(* encoding and decoding, verification and signature recovery are outside *)
(* the repository: an RLP string is taken by what decoding it gives, and  *)
(* a transaction object by its fields and by what its encoding gives.     *)
----------------------------------------------------------------------------

FieldValues == {0, 1}

TxFields == {"data", "value", "gasPrice", "gas", "nonce", "receiveAddress", "sender"}

\* A transaction: its fields, and the sender its signature recovers to.
Transactions == [TxFields -> FieldValues]

\* What constructing, testing and verifying a Transaction from an RLP
\* string does: it goes through ("valid"), importByteArray / RLP / the
\* Transaction constructor throws a dev::Exception ("malformed") or a
\* std::exception that is not one ("foreign"), verifyTransaction throws
\* ("unverified"), or the signature is not valid and the driver throws
\* ("badsig").
RlpKinds == {"valid", "malformed", "unverified", "badsig", "foreign"}

\* What the encoding of a transaction object gives: one of the above, or
\* createRLPStreamFromTransactionFields itself throws ("unbuildable").
TxKinds == RlpKinds \cup {"unbuildable"}

\* o["expect"]: not there, or a string ("other" is neither of the two the
\* driver compares with).
Expects == {"absent", "valid", "invalid", "other"}

\* The transaction every valid RLP string of the fixtures on file decodes to.
DecodedTx == [f \in TxFields |-> 0]

\* o["rlp"], o["transaction"], o["sender"], o["expect"].  `rlp` is what
\* using the string gives and `rlpTx` the transaction it encodes;
\* `transaction` tells whether the object is there, `fields` what it holds
\* and `txKind` what its encoding gives.
Fixtures ==
    {o \in [selected    : BOOLEAN,
            rlp         : {"absent"} \cup RlpKinds,
            rlpTx       : {DecodedTx},
            transaction : {"absent", "object"},
            fields      : Transactions,
            txKind      : TxKinds,
            hasSender   : BOOLEAN,
            sender      : FieldValues,
            expect      : Expects] :
        /\ o.transaction = "absent" => (o.fields = DecodedTx /\ o.txKind = "valid")
        /\ ~o.hasSender => o.sender = 0}

\* The runs of the driver: ttTransactionTest and the like check the
\* fixtures of a file, which hold no "expect"; ttCreateTest fills the
\* fixtures of a filler, with or without Options::checkState.
Runs ==
    {r \in [fillin : BOOLEAN, checkState : BOOLEAN, o : Fixtures] :
        IF r.fillin
        THEN r.o.rlp \in {"absent", "valid"}
        ELSE ~r.checkState /\ r.o.expect = "absent"}

\* The BOOST_CHECKs of lines 131-138 on txFromFields and txFromRlp.
fieldsMatch(txFromFields, txFromRlp) ==
    /\ \A f \in TxFields : txFromFields[f] = txFromRlp[f]
    /\ txFromFields = txFromRlp

\* Mutant of senderMatches: the check of the sender is left out.
senderMatches_Always(txFromFields, txFromRlp, addressReaded) == TRUE

\* The BOOST_CHECK of line 142.
senderMatches(txFromFields, txFromRlp, addressReaded) ==
    \/ txFromFields["sender"] = addressReaded
    \/ txFromRlp["sender"] = addressReaded

\* The driver is about to handle one fixture; no BOOST_CHECK has failed.
DriverInit ==
    /\ driver \in {[at |-> "passTest", fillin |-> r.fillin,
                    checkState |-> r.checkState, o |-> r.o, failed |-> FALSE]
                   : r \in Runs}
    /\ native = NoNative
    /\ balance = <<>>
    /\ nonce = <<>>
    /\ frames = <<>>
    /\ threads = <<>>
    /\ last = NoLast

DriverOnly == UNCHANGED <<balance, nonce, frames, threads, last, native>>

\* passTest: a fixture that is not selected is skipped; the others go to
\* the branch of _fillin.
PassTest ==
    /\ driver.at = "passTest"
    /\ driver' = [driver EXCEPT !.at =
           IF ~driver.o.selected THEN "skipped"
           ELSE IF driver.fillin THEN "fill"
           ELSE "check"]
    /\ DriverOnly

\* Fill mode, up to the try block: BOOST_REQUIRE(o.count("transaction") > 0)
\* ends the test case; what createRLPStreamFromTransactionFields throws is
\* not caught in doTransactionTests and leaves it; otherwise o["rlp"] is
\* the encoding of the transaction object.
BuildRlp ==
    /\ driver.at = "fill"
    /\ driver' =
           IF driver.o.transaction = "absent"
           THEN [driver EXCEPT !.at = "aborted"]
           ELSE IF driver.o.txKind = "unbuildable"
           THEN [driver EXCEPT !.at = "thrown"]
           ELSE [driver EXCEPT !.at = "filled",
                               !.o.rlp = driver.o.txKind,
                               !.o.rlpTx = driver.o.fields]
    /\ DriverOnly

\* A check of fill mode on o["expect"]: BOOST_CHECK_MESSAGE under
\* Options::checkState, else BOOST_WARN_MESSAGE, which fails nothing.
expectFails(checkState, expect, wanted) == checkState /\ expect # wanted

\* Fill mode, the try block and its handler.  A transaction that goes
\* through gives o["sender"], and o["transaction"] is written again with
\* the same fields; after a dev::Exception "transaction" is erased, and
\* "expect", when there, is tested against "invalid" and erased; anything
\* else thrown leaves doTransactionTests.
FillTry ==
    /\ driver.at = "filled"
    /\ LET o == driver.o
       IN  driver' =
               IF o.txKind = "valid"
               THEN [driver EXCEPT !.at = "expect",
                                   !.o.hasSender = TRUE,
                                   !.o.sender = o.fields["sender"]]
               ELSE IF o.txKind = "foreign"
               THEN [driver EXCEPT !.at = "thrown"]
               ELSE [driver EXCEPT !.at = "expect",
                        !.o.transaction = "absent",
                        !.o.fields = DecodedTx,
                        !.o.txKind = "valid",
                        !.o.expect = "absent",
                        !.failed = \/ @
                                   \/ /\ o.expect # "absent"
                                      /\ expectFails(driver.checkState,
                                                     o.expect, "invalid")]
    /\ DriverOnly

\* Fill mode, after the try block: "expect", when still there, is tested
\* against "valid" and erased; the loop goes on.
FillExpect ==
    /\ driver.at = "expect"
    /\ driver' = [driver EXCEPT !.at = "next",
                     !.o.expect = "absent",
                     !.failed = \/ @
                                \/ /\ driver.o.expect # "absent"
                                   /\ expectFails(driver.checkState,
                                                  driver.o.expect, "valid")]
    /\ DriverOnly

\* ttCreateTest, the handlers around its call of doTransactionTests: what
\* the call throws is caught, BOOST_ERROR records a failure, and the test
\* case returns without writing the file.
CreateTestCatch ==
    /\ driver.at = "thrown"
    /\ driver.fillin
    /\ driver' = [driver EXCEPT !.at = "returned", !.failed = TRUE]
    /\ DriverOnly

\* ttCreateTest, after doTransactionTests has returned from the last
\* fixture of the filler, handled or skipped by passTest: the fixtures are
\* written.
WriteFile ==
    /\ driver.at \in {"next", "skipped"}
    /\ driver.fillin
    /\ driver' = [driver EXCEPT !.at = "written"]
    /\ DriverOnly

\* Check mode, BOOST_REQUIRE(o.count("rlp") > 0) and the try block: a
\* fixture without "rlp" ends the test case; otherwise the RLP is decoded,
\* verified and its signature tested.
Decode ==
    /\ driver.at = "check"
    /\ driver' = [driver EXCEPT !.at =
           IF driver.o.rlp = "absent" THEN "aborted"
           ELSE IF driver.o.rlp = "valid" THEN "decoded"
           ELSE "caught"]
    /\ DriverOnly

\* catch (Exception const&) and catch (...): the fixture must hold no
\* transaction object; the loop continues.
Caught ==
    /\ driver.at = "caught"
    /\ driver' = [driver EXCEPT !.at = "next",
                                !.failed = @ \/ driver.o.transaction # "absent"]
    /\ DriverOnly

\* BOOST_REQUIRE_MESSAGE(o.count("transaction") > 0), which ends the test
\* case, and the construction of txFromFields, which is not verified; what
\* it throws is not caught in doTransactionTests and leaves it for the
\* caller of check mode.
Rebuild ==
    /\ driver.at = "decoded"
    /\ driver' = [driver EXCEPT !.at =
           IF driver.o.transaction = "absent" THEN "aborted"
           ELSE IF driver.o.txKind \in {"valid", "unverified", "badsig"}
           THEN "rebuilt"
           ELSE "thrown"]
    /\ DriverOnly

\* The BOOST_CHECKs on the fields, BOOST_REQUIRE(o.count("sender") > 0)
\* and the BOOST_CHECK of the sender.
Compare ==
    /\ driver.at = "rebuilt"
    /\ LET txFromFields == driver.o.fields
           txFromRlp == driver.o.rlpTx
           mismatch == ~fieldsMatch(txFromFields, txFromRlp)
       IN  driver' =
               IF ~driver.o.hasSender
               THEN [driver EXCEPT !.at = "aborted", !.failed = @ \/ mismatch]
               ELSE [driver EXCEPT !.at = "next",
                        !.failed = \/ @
                                   \/ mismatch
                                   \/ ~senderMatches(txFromFields, txFromRlp,
                                                     driver.o.sender)]
    /\ DriverOnly

DriverNext ==
    \/ PassTest
    \/ BuildRlp \/ FillTry \/ FillExpect \/ CreateTestCatch \/ WriteFile
    \/ Decode \/ Caught \/ Rebuild \/ Compare

DriverSpec == DriverInit /\ [][DriverNext]_vars

\* The fixture has been handled and passes: every BOOST_CHECK held and no
\* BOOST_REQUIRE or exception ended the test case.
Passes == driver.at = "next" /\ ~driver.failed

\* C20: in check mode, when the driver is done with a fixture whose RLP
\* does not decode, verify or carry a valid signature, it has gone on to
\* the next fixture, and the fixture passes exactly when it holds no
\* transaction object; a fixture whose RLP goes through passes only if it
\* holds a transaction object, the transaction built from it equals the
\* decoded one in data, value, gasPrice, gas, nonce, receiveAddress and
\* sender, and the fixture's sender is that sender.
C20_CheckModeVerdict ==
    LET o == driver.o
    IN  ~driver.fillin =>
        /\ (driver.at \in {"next", "aborted"} /\ o.rlp \in RlpKinds \ {"valid"}) =>
               /\ driver.at = "next"
               /\ Passes <=> o.transaction = "absent"
        /\ (Passes /\ o.rlp = "valid") =>
               /\ o.transaction = "object"
               /\ \A f \in TxFields : o.fields[f] = o.rlpTx[f]
               /\ o.hasSender
               /\ o.sender = o.rlpTx["sender"]
               /\ o.sender = o.fields["sender"]

C20_Witness ==
    /\ ~driver.fillin
    /\ Passes
    /\ driver.o.rlp = "valid"
    /\ driver.o.transaction = "object"
    /\ driver.o.fields = driver.o.rlpTx
    /\ driver.o.sender = 0

====
